---- MODULE Spec2Model ----
(***************************************************************************)
(* Model of the AEW track exporter (src/data_json.py) and of the plotting  *)
(* script (src/data_plt.py).                                               *)
(*                                                                         *)
(* Three specifications share the operators that model the code:           *)
(*   Spec      the exporter's main loop over the years and its outputs;    *)
(*   SpecYear  process_year applied to one dataset drawn from a wide set;  *)
(*   SpecPlt   the plotting script on one dataset.                         *)
(*                                                                         *)
(* Data model.  A dataset is [time, sys]: the time axis (integer ticks)    *)
(* and the systems; a system is [lon, lat, s, TC_name, TC_gen_time] with   *)
(* lon, lat, s arrays along the time axis.  Floats are integers, NaN and   *)
(* NaT are sentinels.  Two ticks make a minute and four a month, so that   *)
(* strftime('%Y-%m-%d %H:%M') and .month lose information as in the code.  *)
(* TC_name is a Python str or the missing value NaN.                       *)
(***************************************************************************)
EXTENDS Integers, Sequences, FiniteSets, TLC

VARIABLES
    \* the exporter (data_json.py)
    year,             \* the loop variable of line 142; END_YEAR + 1 after the loop
    pc,               \* "loop" until the combined output is decided, then "done"
    all_features,     \* the combined feature list of line 140
    files,            \* the per-year files written, by year
    combined,         \* the combined file
    log,              \* the lines printed
    inputs,           \* what was found on disk for the years handled so far
    PER_YEAR_OUTPUT,  \* the output option of line 30
    \* one call of process_year
    yr_in,            \* the dataset opened at line 46
    yr_clean,         \* ds after line 51
    yr_out,           \* the features returned
    yr_pc,            \* "call" before the call, "returned" after
    \* the plotting script (data_plt.py)
    plt_in,           \* the dataset opened at line 18
    plt_ds,           \* ds after line 21
    plt_todo,         \* the calls of plot_with_proper_title still to make
    plt_saved,        \* the figures saved, by month_num
    plt_n,            \* n_tracks of the last call
    plt_pc            \* "load", "plot", then "done" or "crashed"

vars == <<year, pc, all_features, files, combined, log, inputs, PER_YEAR_OUTPUT,
          yr_in, yr_clean, yr_out, yr_pc,
          plt_in, plt_ds, plt_todo, plt_saved, plt_n, plt_pc>>

mainVars == <<year, pc, all_features, files, combined, log, inputs, PER_YEAR_OUTPUT>>
yearVars == <<yr_in, yr_clean, yr_out, yr_pc>>
pltVars == <<plt_in, plt_ds, plt_todo, plt_saved, plt_n, plt_pc>>

(***************************************************************************)
(* Bounds                                                                  *)
(***************************************************************************)
MaxYears == 2
MaxSys == 2
MaxTime == 3
MantissaBits == 3

(***************************************************************************)
(* Program constants                                                       *)
(***************************************************************************)
START_YEAR == 1979
\* END_YEAR is 2023 in the source; the range is cut to MaxYears years.
END_YEAR == START_YEAR + MaxYears - 1
Years == START_YEAR..END_YEAR

\* np.isnan / pd.isna: the undefined float and the undefined datetime
NaN == -1
NaT == -2
IsNaN(v) == v = NaN

\* JSON values of the optional properties
JNull == [null |-> TRUE]
JStr(v) == [null |-> FALSE, str |-> v]

(***************************************************************************)
(* Sequence helpers                                                        *)
(***************************************************************************)
RECURSIVE Pow2(_)
Pow2(n) == IF n = 0 THEN 1 ELSE 2 * Pow2(n - 1)

\* the indices of S in ascending order of (t[i], i)
SortIdx(S, t) ==
    LET Rank(i) == Cardinality({j \in S : t[j] < t[i] \/ (t[j] = t[i] /\ j < i)}) + 1
    IN  [k \in 1..Cardinality(S) |-> CHOOSE i \in S : Rank(i) = k]

SetMin(S) == CHOOSE v \in S : \A w \in S : v <= w
SetMax(S) == CHOOSE v \in S : \A w \in S : v >= w
Range(f) == {f[i] : i \in DOMAIN f}

(***************************************************************************)
(* Time conversions                                                        *)
(***************************************************************************)
\* pd.to_datetime(t).strftime('%Y-%m-%d %H:%M'): the minute of the tick
TimeStr(t) == t \div 2
\* pd.to_datetime(t).month: June..October
Month(t) == 6 + ((t \div 4) % 5)

(***************************************************************************)
(* Time-axis cleaning (data_json.py 48-51, data_plt.py 19-21)              *)
(***************************************************************************)
\* ds.time.to_index().duplicated().any()
HasDuplicates(t) == \E i, j \in 1..Len(t) : i < j /\ t[i] = t[j]

\* np.unique(values, return_index=True)[1]: first occurrences, by value
UniqueIndex(t) ==
    SortIdx({i \in 1..Len(t) : \A j \in 1..(i - 1) : t[j] # t[i]}, t)

\* ds.isel(time=idx)
Isel(ds, idx) ==
    [time |-> [k \in 1..Len(idx) |-> ds.time[idx[k]]],
     sys  |-> [n \in 1..Len(ds.sys) |->
                [ds.sys[n] EXCEPT !.lon = [k \in 1..Len(idx) |-> ds.sys[n].lon[idx[k]]],
                                  !.lat = [k \in 1..Len(idx) |-> ds.sys[n].lat[idx[k]]],
                                  !.s   = [k \in 1..Len(idx) |-> ds.sys[n].s[idx[k]]]]]]

\* ds.sortby('time')
SortByTime(ds) == Isel(ds, SortIdx(1..Len(ds.time), ds.time))

CleanTime_NoDedup(ds) == SortByTime(ds)
CleanTime(ds) ==
    IF HasDuplicates(ds.time)
    THEN SortByTime(Isel(ds, UniqueIndex(ds.time)))
    ELSE ds

(***************************************************************************)
(* Floating-point arithmetic of the summary statistics                     *)
(* Binary floating point with MantissaBits bits of mantissa, round to      *)
(* nearest, ties to even.  Values are >= 2^(MantissaBits-1), where the     *)
(* spacing of the format is a whole number.                                *)
(***************************************************************************)
\* the spacing of the format at num/den
Spacing(num, den) ==
    Pow2(CHOOSE e \in 0..8 : /\ num < Pow2(MantissaBits + e) * den
                             /\ \A f \in 0..(e - 1) : num >= Pow2(MantissaBits + f) * den)

\* num/den rounded to the format
RoundQ(num, den) ==
    LET u  == Spacing(num, den)
        lo == ((num \div den) \div u) * u
        hi == lo + u
    IN  IF num = lo * den THEN lo
        ELSE IF 2 * num < (lo + hi) * den THEN lo
        ELSE IF 2 * num > (lo + hi) * den THEN hi
        ELSE IF (lo \div u) % 2 = 0 THEN lo ELSE hi

FAdd(a, b) == IF a = 0 THEN b ELSE IF b = 0 THEN a ELSE RoundQ(a + b, 1)

RECURSIVE FSumLoop(_, _)
FSumLoop(s, acc) == IF s = <<>> THEN acc ELSE FSumLoop(Tail(s), FAdd(acc, Head(s)))

\* np.add.reduce on fewer than 9 elements: s[0] + (((0 + s[1]) + s[2]) + ...)
FSum(s) == FAdd(Head(s), FSumLoop(Tail(s), 0))

\* s.mean(): the sum divided by the count
FMean(s) == RoundQ(FSum(s), Len(s))

StrengthMin_First(s) == s[1]
\* s.min()
StrengthMin(s) == SetMin(Range(s))
\* s.max()
StrengthMax(s) == SetMax(Range(s))

\* list(set(months)): CPython iterates a set of small ints by hash slot
MonthsList(months) ==
    LET S == Range(months)
        slot == [m \in S |-> m % 8]
    IN  [k \in 1..Cardinality(S) |->
            CHOOSE m \in S : Cardinality({w \in S : slot[w] < slot[m]}) = k - 1]

(***************************************************************************)
(* process_year (data_json.py 39-134)                                      *)
(***************************************************************************)
Valid_NoLat(sys, i) == ~(IsNaN(sys.lon[i]) \/ IsNaN(sys.s[i]))
\* valid = ~(np.isnan(x) | np.isnan(y) | np.isnan(s))
Valid(sys, i) == ~(IsNaN(sys.lon[i]) \/ IsNaN(sys.lat[i]) \/ IsNaN(sys.s[i]))

\* boolean-mask indexing: the indices where the mask holds, in order
RECURSIVE MaskIdx(_, _)
MaskIdx(sys, i) ==
    IF i > Len(sys.s) THEN <<>>
    ELSE (IF Valid(sys, i) THEN <<i>> ELSE <<>>) \o MaskIdx(sys, i + 1)

IsSpace(c) == c = " "
RECURSIVE LStrip(_)
LStrip(str) == IF str # <<>> /\ IsSpace(Head(str)) THEN LStrip(Tail(str)) ELSE str
RECURSIVE RStrip(_)
RStrip(str) ==
    IF str # <<>> /\ IsSpace(str[Len(str)]) THEN RStrip(SubSeq(str, 1, Len(str) - 1)) ELSE str
\* str.strip()
Strip(str) == LStrip(RStrip(str))

\* str(tc_name_raw)
StrOf(raw) == IF raw.isna THEN <<"n", "a", "n">> ELSE raw.chars

TcName_NoStrip(raw) ==
    LET tc_name == StrOf(raw)
    IN  IF tc_name = <<>> \/ tc_name = <<"n", "a", "n">> \/ raw.isna
        THEN JNull ELSE JStr(tc_name)
\* lines 93-95
TcName(raw) ==
    LET tc_name == Strip(StrOf(raw))
    IN  IF tc_name = <<>> \/ tc_name = <<"n", "a", "n">> \/ raw.isna
        THEN JNull ELSE JStr(tc_name)

\* lines 98-104
DevelopedIntoTc(gen) == gen # NaT
TcGenesisTime(gen) == IF gen = NaT THEN JNull ELSE JStr(TimeStr(gen))

\* lines 74-131: the feature of system n of the cleaned dataset ds
Feature(ds, n, yr) ==
    LET sys == ds.sys[n]
        idx == MaskIdx(sys, 1)
        x == [k \in 1..Len(idx) |-> sys.lon[idx[k]]]
        y == [k \in 1..Len(idx) |-> sys.lat[idx[k]]]
        s == [k \in 1..Len(idx) |-> sys.s[idx[k]]]
        t == [k \in 1..Len(idx) |-> ds.time[idx[k]]]
        coordinates == [k \in 1..Len(idx) |-> <<x[k], y[k]>>]
        times_str == [k \in 1..Len(idx) |-> TimeStr(t[k])]
        months == [k \in 1..Len(idx) |-> Month(t[k])]
        point_data == [k \in 1..Len(idx) |->
                         [strength |-> s[k], month |-> months[k], time |-> times_str[k]]]
    IN  [system_id |-> n,
         year |-> yr,
         coordinates |-> coordinates,
         track_length_points |-> Len(coordinates),
         months |-> MonthsList(months),
         strength_min |-> StrengthMin(s),
         strength_max |-> StrengthMax(s),
         strength_mean |-> FMean(s),
         point_data |-> point_data,
         developed_into_tc |-> DevelopedIntoTc(sys.TC_gen_time),
         tc_name |-> TcName(sys.TC_name),
         tc_genesis_time |-> TcGenesisTime(sys.TC_gen_time)]

\* lines 62-72, 131: the loop over the systems
RECURSIVE SystemLoop(_, _, _)
SystemLoop(ds, n, yr) ==
    IF n > Len(ds.sys) THEN <<>>
    ELSE (IF \E i \in 1..Len(ds.time) : Valid(ds.sys[n], i)
          THEN <<Feature(ds, n, yr)>> ELSE <<>>) \o SystemLoop(ds, n + 1, yr)

\* lines 45-134: process_year on an existing file
ProcessDataset(ds, yr) == SystemLoop(CleanTime(ds), 1, yr)

(***************************************************************************)
(* Input sets                                                              *)
(***************************************************************************)
TimeVals == {0, 1, 4}
StrengthVals == {3 * Pow2(MantissaBits - 2), Pow2(MantissaBits) - 1}
NameVals == {[isna |-> TRUE, chars |-> <<>>],
             [isna |-> FALSE, chars |-> <<>>],
             [isna |-> FALSE, chars |-> <<" ">>],
             [isna |-> FALSE, chars |-> <<" ", "A", " ">>],
             [isna |-> FALSE, chars |-> <<"n", "a", "n">>]}
GenVals == {NaT, 1}

\* the samples of raw time index i: longitude and latitude name the index
SampleKinds == {"low", "high", "nolon", "nolat", "nostrength"}
Sample(i, kind) ==
    CASE kind = "low"        -> <<i, 10 + i, SetMin(StrengthVals)>>
      [] kind = "high"       -> <<i, 10 + i, SetMax(StrengthVals)>>
      [] kind = "nolon"      -> <<NaN, 10 + i, SetMin(StrengthVals)>>
      [] kind = "nolat"      -> <<i, NaN, SetMin(StrengthVals)>>
      [] kind = "nostrength" -> <<i, 10 + i, NaN>>

SampleArrays(len) ==
    {[i \in 1..len |-> Sample(i, kinds[i])] : kinds \in [1..len -> SampleKinds]}

MkSystem(a, name, gen) ==
    [lon |-> [i \in 1..Len(a) |-> a[i][1]],
     lat |-> [i \in 1..Len(a) |-> a[i][2]],
     s   |-> [i \in 1..Len(a) |-> a[i][3]],
     TC_name |-> name, TC_gen_time |-> gen]

\* the datasets of SpecYear: a time axis with a sample array
\* and no cyclone, or two valid samples with a cyclone name and genesis time;
\* and datasets of up to MaxSys systems
TrackDataset(t, a) ==
    [time |-> t, sys |-> <<MkSystem(a, [isna |-> TRUE, chars |-> <<>>], NaT)>>]

\* several systems on the time axis <<0, 4>>
MultiDataset(arrays) ==
    [time |-> <<0, 4>>,
     sys |-> [n \in 1..Len(arrays) |->
                MkSystem(arrays[n], [isna |-> TRUE, chars |-> <<>>], NaT)]]

TcDataset(name, gen) ==
    [time |-> <<0, 4>>,
     sys |-> <<MkSystem(<<Sample(1, "low"), Sample(2, "high")>>, name, gen)>>]

EmptyDs == [time |-> <<>>, sys |-> <<>>]

(***************************************************************************)
(* SpecYear: process_year on one dataset                                   *)
(***************************************************************************)
MainIdle ==
    /\ year = START_YEAR /\ pc = "idle" /\ all_features = <<>>
    /\ files = [y \in Years |-> [written |-> FALSE, features |-> <<>>]]
    /\ combined = [written |-> FALSE, features |-> <<>>]
    /\ log = <<>>
    /\ inputs = [y \in Years |-> [read |-> FALSE, exists |-> FALSE, ds |-> EmptyDs]]
    /\ PER_YEAR_OUTPUT = TRUE

YearIdle == yr_in = EmptyDs /\ yr_clean = EmptyDs /\ yr_out = <<>> /\ yr_pc = "idle"

PltIdle ==
    /\ plt_in = EmptyDs /\ plt_ds = EmptyDs /\ plt_todo = <<>> /\ plt_saved = {}
    /\ plt_n = 0 /\ plt_pc = "idle"

InitYear ==
    /\ MainIdle /\ PltIdle
    /\ \/ \E len \in 1..MaxTime :
            \E t \in [1..len -> TimeVals], a \in SampleArrays(len) :
              yr_in = TrackDataset(t, a)
       \/ \E name \in NameVals, gen \in GenVals : yr_in = TcDataset(name, gen)
       \/ \E n \in 2..MaxSys :
            \E arrays \in [1..n -> SampleArrays(2)] : yr_in = MultiDataset(arrays)
    /\ yr_clean = EmptyDs /\ yr_out = <<>> /\ yr_pc = "call"

\* process_year(START_YEAR) on the file yr_in
ProcessYearCall ==
    /\ yr_pc = "call"
    /\ yr_clean' = CleanTime(yr_in)
    /\ yr_out' = ProcessDataset(yr_in, START_YEAR)
    /\ yr_pc' = "returned"
    /\ UNCHANGED <<yr_in, mainVars, pltVars>>

NextYear == ProcessYearCall
SpecYear == InitYear /\ [][NextYear]_vars

(***************************************************************************)
(* Spec: the main loop over the years (data_json.py 140-189)               *)
(***************************************************************************)
\* the systems of the datasets of Spec, on the time axis <<0, 4>>: one without
\* valid sample, one with two valid samples and a cyclone
SysMain ==
    {MkSystem(<<<<NaN, 11, SetMin(StrengthVals)>>, <<2, 12, NaN>>>>,
              [isna |-> TRUE, chars |-> <<>>], NaT),
     MkSystem(<<<<1, 11, SetMax(StrengthVals)>>, <<2, 12, SetMin(StrengthVals)>>>>,
              [isna |-> FALSE, chars |-> <<"A", " ">>], 1)}

DatasetsMain ==
    UNION {{[time |-> <<0, 4>>, sys |-> ss] : ss \in [1..n -> SysMain]} : n \in 0..MaxSys}

\* what os.path.exists and xr.open_dataset find for a year
Inputs ==
    {[exists |-> FALSE, ds |-> EmptyDs]}
      \cup {[exists |-> TRUE, ds |-> d] : d \in DatasetsMain}

Msg(kind, yr, n) == [kind |-> kind, year |-> yr, n |-> n]

ProcessYear_Silent(input, yr) ==
    IF ~input.exists
    THEN [none |-> TRUE, features |-> <<>>, yr |-> yr, out |-> <<>>]
    ELSE LET features == ProcessDataset(input.ds, yr)
         IN  [none |-> FALSE, features |-> features, yr |-> yr,
              out |-> <<Msg("loading", yr, 0), Msg("tracks", yr, Len(features))>>]
\* process_year(year): the returned pair and the lines printed
ProcessYear(input, yr) ==
    IF ~input.exists
    THEN [none |-> TRUE, features |-> <<>>, yr |-> yr, out |-> <<Msg("warning", yr, 0)>>]
    ELSE LET features == ProcessDataset(input.ds, yr)
         IN  [none |-> FALSE, features |-> features, yr |-> yr,
              out |-> <<Msg("loading", yr, 0), Msg("tracks", yr, Len(features))>>]

Truthy_NotNone(r) == ~r.none
\* if features:
Truthy(r) == ~r.none /\ r.features # <<>>

Extend_Prepend(list, features) == features \o list
\* all_features.extend(features)
Extend(list, features) == list \o features

\* sum(1 for f in all_features if f["properties"]["developed_into_tc"])
TcCount(list) == Cardinality({k \in 1..Len(list) : list[k].developed_into_tc})

Init ==
    /\ YearIdle /\ PltIdle
    /\ year = START_YEAR /\ pc = "loop" /\ all_features = <<>>
    /\ files = [y \in Years |-> [written |-> FALSE, features |-> <<>>]]
    /\ combined = [written |-> FALSE, features |-> <<>>]
    /\ log = <<>>
    /\ inputs = [y \in Years |-> [read |-> FALSE, exists |-> FALSE, ds |-> EmptyDs]]
    /\ PER_YEAR_OUTPUT \in BOOLEAN

\* one iteration of the loop of lines 142-158
LoopIteration ==
    \E input \in Inputs :
    LET r == ProcessYear(input, year)
    IN  /\ pc = "loop" /\ year <= END_YEAR
        /\ inputs' = [inputs EXCEPT ![year] =
                         [read |-> TRUE, exists |-> input.exists, ds |-> input.ds]]
        /\ IF Truthy(r)
           THEN /\ all_features' = Extend(all_features, r.features)
                /\ IF PER_YEAR_OUTPUT
                   THEN /\ files' = [files EXCEPT ![r.yr] =
                                        [written |-> TRUE, features |-> r.features]]
                        /\ log' = log \o r.out \o <<Msg("saved", r.yr, 0)>>
                   ELSE /\ files' = files
                        /\ log' = log \o r.out
           ELSE /\ all_features' = all_features
                /\ files' = files
                /\ log' = log \o r.out
        /\ year' = year + 1
        /\ UNCHANGED <<pc, combined, PER_YEAR_OUTPUT, yearVars, pltVars>>

\* lines 163-187: the combined file and the summary
WriteCombined ==
    /\ pc = "loop" /\ year > END_YEAR
    /\ all_features # <<>>
    /\ combined' = [written |-> TRUE, features |-> all_features]
    /\ log' = log \o <<Msg("success", TcCount(all_features), Len(all_features))>>
    /\ pc' = "done"
    /\ UNCHANGED <<year, all_features, files, inputs, PER_YEAR_OUTPUT, yearVars, pltVars>>

\* lines 188-189
NoData ==
    /\ pc = "loop" /\ year > END_YEAR
    /\ all_features = <<>>
    /\ log' = log \o <<Msg("nodata", 0, 0)>>
    /\ pc' = "done"
    /\ UNCHANGED <<year, all_features, files, combined, inputs, PER_YEAR_OUTPUT,
                   yearVars, pltVars>>

Next == LoopIteration \/ WriteCombined \/ NoData
Spec == Init /\ [][Next]_vars

(***************************************************************************)
(* SpecPlt: the plotting script (data_plt.py)                              *)
(***************************************************************************)
\* month_num=None, the full season
FullSeason == 0
\* for m in [6, 7, 8, 9, 10], then month_num=None
PlotCalls == <<6, 7, 8, 9, 10, FullSeason>>

\* one sample per month June..October, as read or after a duplicated first entry
PltTimeAxes == {<<0, 4, 8, 12, 16>>, <<16, 0, 4, 8, 12, 16>>}

\* a system whose samples are valid at the time indices in V
PltSystem(len, V) ==
    MkSystem([i \in 1..len |-> IF i \in V THEN <<i, 10 + i, SetMin(StrengthVals)>>
                                          ELSE <<NaN, NaN, NaN>>],
             [isna |-> TRUE, chars |-> <<>>], NaT)

\* one system with any set of valid samples, or that system after one that is
\* valid in June only
DatasetsPlt ==
    UNION {{[time |-> t, sys |-> <<PltSystem(Len(t), V)>>] : V \in SUBSET (1..Len(t))}
             \cup {[time |-> t, sys |-> <<PltSystem(Len(t), {Len(t) - 4}), PltSystem(Len(t), V)>>] :
                      V \in SUBSET ((Len(t) - 2)..Len(t))}
           : t \in PltTimeAxes}

\* mask = ds.month == month_num, or slice(None)
InMask(ds, i, month_num) == month_num = FullSeason \/ Month(ds.time[i]) = month_num

\* lines 56-66: the systems with a valid sample under the mask
PlottedSystems(ds, month_num) ==
    {n \in 1..Len(ds.sys) :
        \E i \in 1..Len(ds.time) : InMask(ds, i, month_num) /\ Valid(ds.sys[n], i)}

InitPlt ==
    /\ MainIdle /\ YearIdle
    /\ plt_in \in DatasetsPlt
    /\ plt_ds = EmptyDs /\ plt_todo = PlotCalls /\ plt_saved = {}
    /\ plt_n = 0 /\ plt_pc = "load"

\* lines 18-24: load and clean
PltLoad ==
    /\ plt_pc = "load"
    /\ plt_ds' = CleanTime(plt_in)
    /\ plt_pc' = "plot"
    /\ UNCHANGED <<plt_in, plt_todo, plt_saved, plt_n, mainVars, yearVars>>

\* plot_with_proper_title(Head(plt_todo)); lc is bound in the loop body only,
\* so plt.colorbar(lc, ...) of line 83 raises UnboundLocalError without a track
PlotWithProperTitle ==
    /\ plt_pc = "plot" /\ plt_todo # <<>>
    /\ LET month_num == Head(plt_todo)
           n_tracks == Cardinality(PlottedSystems(plt_ds, month_num))
       IN  /\ plt_n' = n_tracks
           /\ IF n_tracks = 0
              THEN /\ plt_pc' = "crashed"
                   /\ UNCHANGED <<plt_todo, plt_saved>>
              ELSE /\ plt_saved' = plt_saved \cup {month_num}
                   /\ plt_todo' = Tail(plt_todo)
                   /\ plt_pc' = plt_pc
    /\ UNCHANGED <<plt_in, plt_ds, mainVars, yearVars>>

\* line 108
PltFinish ==
    /\ plt_pc = "plot" /\ plt_todo = <<>>
    /\ plt_pc' = "done"
    /\ UNCHANGED <<plt_in, plt_ds, plt_todo, plt_saved, plt_n, mainVars, yearVars>>

NextPlt == PltLoad \/ PlotWithProperTitle \/ PltFinish
SpecPlt == InitPlt /\ [][NextPlt]_vars

(***************************************************************************)
(* Properties of process_year (SpecYear)                                   *)
(***************************************************************************)
Returned == yr_pc = "returned"
Features == {yr_out[k] : k \in 1..Len(yr_out)}
Strengths(f) == {f.point_data[k].strength : k \in 1..Len(f.point_data)}

\* the time samples of system n at which longitude, latitude and strength are defined
Retained(n) ==
    {i \in 1..Len(yr_clean.time) :
        /\ yr_clean.sys[n].lon[i] # NaN
        /\ yr_clean.sys[n].lat[i] # NaN
        /\ yr_clean.sys[n].s[i] # NaN}
Kth(S, k) == CHOOSE i \in S : Cardinality({j \in S : j < i}) = k - 1

\* C2: the points of a system's feature are exactly its samples with longitude,
\* latitude and strength all defined, in time-axis order, and the k-th
\* coordinate pair and the k-th point_data entry come from the same sample.
C2_SampleFiltering ==
    Returned =>
      \A n \in 1..Len(yr_clean.sys) :
        Retained(n) # {} =>
          \E f \in Features :
            /\ f.system_id = n
            /\ Len(f.coordinates) = Cardinality(Retained(n))
            /\ Len(f.point_data) = Cardinality(Retained(n))
            /\ \A k \in 1..Cardinality(Retained(n)) :
                 LET i == Kth(Retained(n), k)
                 IN  /\ f.coordinates[k] = <<yr_clean.sys[n].lon[i], yr_clean.sys[n].lat[i]>>
                     /\ f.point_data[k] = [strength |-> yr_clean.sys[n].s[i],
                                            month |-> Month(yr_clean.time[i]),
                                            time |-> TimeStr(yr_clean.time[i])]

\* a track of two points left of three samples, the middle one dropped
C2_Witness ==
    /\ Returned /\ Len(yr_clean.time) = 3 /\ Len(yr_out) = 1
    /\ Retained(1) = {1, 3}
    /\ Len(yr_out[1].coordinates) = 2

NoRepeat(t) == \A i, j \in 1..Len(t) : i # j => t[i] # t[j]
Ascending(t) == \A i, j \in 1..Len(t) : i < j => t[i] < t[j]
NonDecreasing(t) == \A i, j \in 1..Len(t) : i < j => t[i] <= t[j]
TrackTimes(f) == [k \in 1..Len(f.point_data) |-> f.point_data[k].time]

\* C3 as stated: after cleaning, the time axis of every dataset has no
\* duplicate and is ascending, and the times of every track strictly increase.
C3_AlwaysSorted ==
    Returned =>
      /\ NoRepeat(yr_clean.time)
      /\ Ascending(yr_clean.time)
      /\ \A f \in Features : Ascending(TrackTimes(f))

\* C3 amended: after cleaning the time axis has no duplicate; it is ascending
\* when the input axis had a duplicate or was ascending already, and then the
\* minute-resolution times of every track never decrease; an axis without
\* duplicate is left as it was read.
C3_TimeCleaning ==
    Returned =>
      /\ NoRepeat(yr_clean.time)
      /\ (~NoRepeat(yr_in.time) \/ Ascending(yr_in.time)) =>
            /\ Ascending(yr_clean.time)
            /\ \A f \in Features : NonDecreasing(TrackTimes(f))
      /\ NoRepeat(yr_in.time) => yr_clean.time = yr_in.time

\* an unsorted axis with a duplicate, cleaned to two times, with a two-point track
C3_Witness ==
    /\ Returned /\ yr_in.time = <<4, 0, 4>> /\ yr_clean.time = <<0, 4>>
    /\ Len(yr_out) = 1 /\ Len(yr_out[1].point_data) = 2

Blank(raw) == raw.isna \/ \A i \in 1..Len(raw.chars) : raw.chars[i] = " "

\* C4: developed_into_tc is true exactly when tc_genesis_time is non-null; a
\* missing genesis time gives developed_into_tc = false and a null
\* tc_genesis_time; an empty, whitespace-only or missing name gives a null tc_name.
C4_GenesisNullHandling ==
    Returned =>
      \A f \in Features :
        LET sys == yr_in.sys[f.system_id]
        IN  /\ f.developed_into_tc <=> (f.tc_genesis_time # JNull)
            /\ sys.TC_gen_time = NaT =>
                 (f.developed_into_tc = FALSE /\ f.tc_genesis_time = JNull)
            /\ Blank(sys.TC_name) => f.tc_name = JNull

\* a whitespace-only name on a system without genesis time
C4_Witness ==
    /\ Returned /\ Len(yr_out) = 1
    /\ yr_in.sys[1].TC_name = [isna |-> FALSE, chars |-> <<" ">>]
    /\ yr_in.sys[1].TC_gen_time = NaT
    /\ yr_out[1].tc_name = JNull /\ ~yr_out[1].developed_into_tc

MonthsOf(f) == {f.point_data[k].month : k \in 1..Len(f.point_data)}

\* C7 as stated: strength_min and strength_max are the extremes of the
\* point_data strengths, strength_min <= strength_mean <= strength_max, and
\* months is the set of the point_data months without repeats.
C7_MeanWithinRange ==
    Returned =>
      \A f \in Features :
        /\ f.strength_min = SetMin(Strengths(f))
        /\ f.strength_max = SetMax(Strengths(f))
        /\ f.strength_min <= f.strength_mean /\ f.strength_mean <= f.strength_max
        /\ Range(f.months) = MonthsOf(f) /\ NoRepeat(f.months)

\* C7 amended: strength_min and strength_max are the extremes of the
\* point_data strengths, strength_mean is the floating-point mean of exactly
\* those strengths (which rounding can put outside the two), and months is the
\* set of the point_data months without repeats.
C7_SummaryStatistics ==
    Returned =>
      \A f \in Features :
        /\ f.strength_min = SetMin(Strengths(f))
        /\ f.strength_max = SetMax(Strengths(f))
        /\ f.strength_min <= f.strength_max
        /\ f.strength_mean =
             FMean([k \in 1..Len(f.point_data) |-> f.point_data[k].strength])
        /\ Range(f.months) = MonthsOf(f) /\ NoRepeat(f.months)

\* a track over two months whose first strength is the larger, one sample dropped
C7_Witness ==
    /\ Returned /\ Len(yr_out) = 1 /\ Len(yr_in.time) = 3
    /\ Len(yr_out[1].point_data) = 2
    /\ yr_out[1].point_data[1].strength > yr_out[1].point_data[2].strength
    /\ Len(yr_out[1].months) = 2

\* C9: every feature with developed_into_tc = true has a non-null tc_name, and
\* no feature with developed_into_tc = false has one.
C9_DevelopedMeansNamed ==
    Returned =>
      \A f \in Features :
        /\ f.developed_into_tc => f.tc_name # JNull
        /\ ~f.developed_into_tc => f.tc_name = JNull

\* C10: a system without valid sample emits no feature, and every feature has
\* at least two positions, with track_length_points the number of coordinates
\* and of point_data entries.
C10_LineStringRecord ==
    Returned =>
      /\ \A n \in 1..Len(yr_clean.sys) :
           Retained(n) = {} => ~\E f \in Features : f.system_id = n
      /\ \A f \in Features :
           /\ Len(f.coordinates) >= 2
           /\ f.track_length_points = Len(f.coordinates)
           /\ f.track_length_points = Len(f.point_data)

(***************************************************************************)
(* Properties of the main loop (Spec)                                      *)
(***************************************************************************)
Done == pc = "done"
\* the features of year y in a list, in list order
OfYear(list, y) == SelectSeq(list, LAMBDA f : f.year = y)
Logged(kind, y) == {k \in 1..Len(log) : log[k].kind = kind /\ log[k].year = y}
\* what process_year returns for the file read for year y
Expected(y) == IF inputs[y].exists THEN ProcessDataset(inputs[y].ds, y) ELSE <<>>

\* C1: a year whose file is missing gets a warning, adds no feature to the
\* combined list and writes no per-year file; the loop goes on to every other
\* year, and the features of the years that are present are those of their files.
C1_MissingFileSkipped ==
    /\ \A y \in Years :
         (inputs[y].read /\ ~inputs[y].exists) =>
            /\ Logged("warning", y) # {}
            /\ OfYear(all_features, y) = <<>>
            /\ ~files[y].written
    /\ \A y \in Years : inputs[y].read <=> y < year
    /\ Done => \A y \in Years : inputs[y].read
    /\ \A y \in Years :
         (inputs[y].read /\ inputs[y].exists) =>
            /\ OfYear(all_features, y) = ProcessDataset(inputs[y].ds, y)
            /\ Logged("warning", y) = {}

\* the first year is missing, the next one is present and exported, the run has ended
C1_Witness ==
    /\ Done
    /\ ~inputs[START_YEAR].exists
    /\ inputs[START_YEAR + 1].exists /\ files[START_YEAR + 1].written
    /\ OfYear(all_features, START_YEAR + 1) # <<>>

RECURSIVE ConcatYears(_)
ConcatYears(y) == IF y < START_YEAR THEN <<>> ELSE ConcatYears(y - 1) \o Expected(y)

\* C5: after the loop the combined list is the concatenation, in ascending year
\* order and each year once, of the lists process_year returned, systems in
\* dataset order within a year; every feature of the per-year file of Y has
\* year Y and is in the combined list.
C5_Accumulation ==
    year > END_YEAR =>
      /\ all_features = ConcatYears(END_YEAR)
      /\ \A i, j \in 1..Len(all_features) :
           i < j =>
             \/ all_features[i].year < all_features[j].year
             \/ /\ all_features[i].year = all_features[j].year
                /\ all_features[i].system_id < all_features[j].system_id
      /\ \A y \in Years :
           /\ Cardinality(Logged("warning", y) \cup Logged("tracks", y)) = 1
           /\ \A k \in Logged("tracks", y) : log[k].n = Len(OfYear(all_features, y))
           /\ files[y].written =>
                /\ \A k \in 1..Len(files[y].features) : files[y].features[k].year = y
                /\ files[y].features = OfYear(all_features, y)
      /\ Done /\ combined.written => combined.features = all_features

\* two years with features, the later one with two systems, both files written
C5_Witness ==
    /\ Done /\ combined.written
    /\ files[START_YEAR].written /\ files[START_YEAR + 1].written
    /\ Len(files[START_YEAR + 1].features) = 2
    /\ Len(all_features) >= 3

\* C8: the per-year file of Y is written exactly when per-year output is on
\* and process_year(Y) returned a feature; the combined file is written exactly
\* when some feature was produced, otherwise the run ends with 'No data processed'.
C8_FilesWhenNeeded ==
    /\ \A y \in Years :
         files[y].written <=>
            (inputs[y].read /\ PER_YEAR_OUTPUT /\ Expected(y) # <<>>)
    /\ \A y \in Years : files[y].written => files[y].features # <<>>
    /\ combined.written <=> (Done /\ all_features # <<>>)
    /\ Done => (Logged("nodata", 0) # {} <=> ~combined.written)
    /\ ~Done => Logged("nodata", 0) = {}

\* a year whose file exists but has no valid sample, next to an exported year
C8_Witness ==
    /\ Done /\ combined.written /\ PER_YEAR_OUTPUT
    /\ inputs[START_YEAR].exists /\ Len(inputs[START_YEAR].ds.sys) > 0
    /\ ~files[START_YEAR].written
    /\ files[START_YEAR + 1].written

(***************************************************************************)
(* Properties of the plotting script (SpecPlt)                             *)
(***************************************************************************)
\* C6: for every dataset the run of the plotting script ends with the six
\* figures saved, June to October and the full season.
C6_AllFiguresSaved ==
    plt_pc \in {"done", "crashed"} =>
      /\ plt_pc = "done"
      /\ plt_saved = {6, 7, 8, 9, 10, FullSeason}

====
